---- MODULE Spec2Model ----
(***************************************************************************)
(* State-machine model of e_naheo_brain_v2.py: the EKF ghost sensor, the   *)
(* two-step MPC reactor, the tabular Q-learning strategist and the         *)
(* NAHEO_Brain_V2 orchestrator that sequences them in run_cycle.           *)
(*                                                                         *)
(* Python floats are modelled as fixed-point integers in thousandths       *)
(* (SCALE = 1000): 8.4 V is 8400, a duty cycle of 0.1 is 100.  A product   *)
(* is rescaled by SCALE after every multiplication and a quotient is       *)
(* computed on the rescaled dividend, in the order the source evaluates    *)
(* them.  States whose estimator values leave the range the fixed-point    *)
(* arithmetic can carry (MaxMag), or whose innovation covariance is zero,  *)
(* are not stepped further by the estimator.                               *)
(*                                                                         *)
(* rest counts the estimator updates since the last one that measured a    *)
(* sag; random_calls counts the calls of random.random() on the generator  *)
(* of the random module, which is one per process; peer is a second        *)
(* NAHEO_Brain_V2 instance of the same process.                            *)
(*                                                                         *)
(* The module also models the energy algorithms of src/algorithms and      *)
(* SimulationEngine.run_simulation: algorithm is the algorithm object      *)
(* handed to the engine, results the list of the results of the runs made  *)
(* on it.                                                                  *)
(***************************************************************************)
EXTENDS Integers, FiniteSets, Sequences, TLC

VARIABLES x, P, u, q_table, last_soc_state, last_action, last, steps,
          rest, random_calls, peer, algorithm, results

vars == <<x, P, u, q_table, last_soc_state, last_action, last, steps,
          rest, random_calls, peer, algorithm, results>>

(* ---------------------------- bounds ----------------------------------- *)

MaxSteps == 3

MaxMag == 20000

\* updates that measure a sag, at the start of a settling run
MaxLoad == 2

\* updates without sag that a settling run is followed for
MaxRest == 160

\* updates without sag after which the estimate has to be near 0
SettleBound == 150

\* an estimated current below 0.02 A counts as near 0
Near == 20

\* thousandths that the rounding of the controller's quotient may cost
Rounding == 3

\* SimulationEngine.duration, the time steps of one simulation
duration == 3

\* calls of run_simulation followed on one algorithm object
MaxRuns == 2

(* ------------------------ fixed-point floats --------------------------- *)

SCALE == 1000

Mul(m, n) == (m * n) \div SCALE

Div(m, n) == (m * SCALE) \div n

Max(m, n) == IF n > m THEN n ELSE m

Min(m, n) == IF n < m THEN n ELSE m

Abs(m) == IF m < 0 THEN -m ELSE m

(* ------------------------- EKF_GhostSensor ----------------------------- *)

x0 == <<0, 300>>

P0 == <<<<1000, 0>>, <<0, 1000>>>>

Q == <<<<10, 0>>, <<0, 1>>>>

R == 100

\* P_pred = self.P + self.Q
Predict(Pm) == [i \in 1..2 |-> [j \in 1..2 |-> Pm[i][j] + Q[i][j]]]

\* H = [x[1], x[0]]  (Python indices; 1-based here: <<R, I>>)
Jacobian(xv) == <<xv[2], xv[1]>>

\* np.dot(P_pred, H.T)
PHt(Pm, xv) ==
    LET Pp == Predict(Pm)
        H == Jacobian(xv)
    IN  [i \in 1..2 |-> Mul(Pp[i][1], H[1]) + Mul(Pp[i][2], H[2])]

\* S = np.dot(H, np.dot(P_pred, H.T)) + self.R
InnovationCov(Pm, xv) ==
    LET H == Jacobian(xv)
        PH == PHt(Pm, xv)
    IN  Mul(H[1], PH[1]) + Mul(H[2], PH[2]) + R

\* variant: the resistance is floored at 0 like the current
Constrain_zero_floor(xn) == <<Max(0, xn[1]), Max(0, xn[2])>>

\* self.x[0] = max(0.0, self.x[0]); self.x[1] = max(0.05, self.x[1])
Constrain(xn) == <<Max(0, xn[1]), Max(50, xn[2])>>

\* variant: the innovation is the measurement itself, y = z
Correct_raw_innovation(x_pred, P_pred, z, H, PH, S) ==
    LET K == [i \in 1..2 |-> Div(PH[i], S)]
        y == z
        xn == [i \in 1..2 |-> x_pred[i] + Mul(K[i], y)]
        Pn == [i \in 1..2 |-> [j \in 1..2 |->
                  P_pred[i][j] - Mul(Mul(K[i], H[j]), S)]]
    IN  [x |-> Constrain(xn), P |-> Pn]

\* steps 4-6 of update for a given Jacobian H, product PH and covariance S
Correct(x_pred, P_pred, z, H, PH, S) ==
    LET K == [i \in 1..2 |-> Div(PH[i], S)]
        y == z - Mul(x_pred[1], x_pred[2])
        xn == [i \in 1..2 |-> x_pred[i] + Mul(K[i], y)]
        Pn == [i \in 1..2 |-> [j \in 1..2 |->
                  P_pred[i][j] - Mul(Mul(K[i], H[j]), S)]]
    IN  [x |-> Constrain(xn), P |-> Pn]

ghost_update(xv, Pm, v_term, v_ocv) ==
    LET z == Max(0, v_ocv - v_term)
        n == Correct(xv, Predict(Pm), z, Jacobian(xv), PHt(Pm, xv),
                     InnovationCov(Pm, xv))
    IN  [x |-> n.x, P |-> n.P, ret |-> n.x[1]]

\* z = max(0, v_ocv - v_term): the updates since the last measured sag
Rested(n, v_term, v_ocv) == IF Max(0, v_ocv - v_term) = 0 THEN n + 1 ELSE 0

InRange(m) == -MaxMag <= m /\ m <= MaxMag

\* the estimator states the fixed-point arithmetic can step from
Representable(xv, Pm) ==
    /\ \A i \in 1..2 : InRange(xv[i])
    /\ \A i \in 1..2 : \A j \in 1..2 : InRange(Pm[i][j])
    /\ InnovationCov(Pm, xv) # 0

(* ------------------------- TrueMPC_Reactor ----------------------------- *)

u0 == 1000

a == 900

b == 800

\* variant: the effort penalty is subtracted from the denominator
Denominator_subtracts(penalty_lambda) ==
    Mul(b, b) + Mul(Mul(500, a), Mul(b, b)) - penalty_lambda

\* denominator = (self.b**2) + 0.5 * self.a * (self.b**2) + penalty_lambda
Denominator(penalty_lambda) ==
    Mul(b, b) + Mul(Mul(500, a), Mul(b, b)) + penalty_lambda

\* variant: the penalty term pulls towards the target, not towards self.u
Numerator_pulls_to_target(uv, target_v_norm, current_v_norm, penalty_lambda) ==
    LET v_next == Mul(a, current_v_norm) + Mul(b, uv)
    IN  Mul(b, target_v_norm - Mul(a, current_v_norm))
          + Mul(Mul(Mul(500, a), b), target_v_norm - v_next)
          + Mul(penalty_lambda, target_v_norm)

Numerator(uv, target_v_norm, current_v_norm, penalty_lambda) ==
    LET v_next == Mul(a, current_v_norm) + Mul(b, uv)
    IN  Mul(b, target_v_norm - Mul(a, current_v_norm))
          + Mul(Mul(Mul(500, a), b), target_v_norm - v_next)
          + Mul(penalty_lambda, uv)

\* variant: only the upper PWM limit is applied
Clip_upper_only(u_opt) == Min(1000, u_opt)

\* self.u = max(0.1, min(1.0, u_opt))
Clip(u_opt) == Max(100, Min(1000, u_opt))

\* variant: the clipped value is stored but the raw optimum is returned
compute_returns_raw(uv, target_v_norm, current_v_norm, penalty_lambda) ==
    LET numerator == Numerator(uv, target_v_norm, current_v_norm, penalty_lambda)
        denominator == Denominator(penalty_lambda)
    IN  IF denominator = 0
        THEN [u |-> uv, ret |-> 0, err |-> "ZeroDivisionError"]
        ELSE LET u_opt == Div(numerator, denominator)
             IN  [u |-> Clip(u_opt), ret |-> u_opt, err |-> "none"]

\* variant: array-style division, a zero denominator gives an infinite
\* optimum that is clipped and stored without any error
compute_no_raise(uv, target_v_norm, current_v_norm, penalty_lambda) ==
    LET numerator == Numerator(uv, target_v_norm, current_v_norm, penalty_lambda)
        denominator == Denominator(penalty_lambda)
    IN  IF denominator = 0
        THEN LET u_inf == IF numerator < 0 THEN 100 ELSE 1000
             IN  [u |-> u_inf, ret |-> u_inf, err |-> "none"]
        ELSE LET u_new == Clip(Div(numerator, denominator))
             IN  [u |-> u_new, ret |-> u_new, err |-> "none"]

\* variant: the optimum is computed and clipped a second time from the
\* first result
compute_twice(uv, target_v_norm, current_v_norm, penalty_lambda) ==
    LET denominator == Denominator(penalty_lambda)
        first == Clip(Div(Numerator(uv, target_v_norm, current_v_norm,
                                    penalty_lambda), denominator))
        second == Clip(Div(Numerator(first, target_v_norm, current_v_norm,
                                     penalty_lambda), denominator))
    IN  IF denominator = 0
        THEN [u |-> uv, ret |-> 0, err |-> "ZeroDivisionError"]
        ELSE [u |-> second, ret |-> second, err |-> "none"]

\* a float division by zero raises ZeroDivisionError before self.u is stored
compute(uv, target_v_norm, current_v_norm, penalty_lambda) ==
    LET numerator == Numerator(uv, target_v_norm, current_v_norm, penalty_lambda)
        denominator == Denominator(penalty_lambda)
    IN  IF denominator = 0
        THEN [u |-> uv, ret |-> 0, err |-> "ZeroDivisionError"]
        ELSE LET u_new == Clip(Div(numerator, denominator))
             IN  [u |-> u_new, ret |-> u_new, err |-> "none"]

(* ----------------------- QLearning_Strategist -------------------------- *)

alpha == 100

gamma == 900

\* self.actions = [0.1, 1.0, 5.0], in declaration order
actions == <<100, 1000, 5000>>

ActionSet == {actions[i] : i \in 1..Len(actions)}

\* variant: a new row starts optimistic, every action at 1.0
ZeroRow_optimistic == [act \in ActionSet |-> 1000]

\* {a: 0.0 for a in self.actions}
ZeroRow == [act \in ActionSet |-> 0]

\* if state not in self.q_table: self.q_table[state] = {...}
EnsureRow(q, state) ==
    IF state \in DOMAIN q THEN q ELSE q @@ (state :> ZeroRow)

\* variant: the nearest multiple of 20, not the one below
get_state_nearest(soc) == ((soc + 10) \div 20) * 20

\* int(soc // 20) * 20
get_state(soc) == (soc \div 20) * 20

\* variant: the value of the row's lowest entry
RowMax_lowest(row) == CHOOSE m \in {row[act] : act \in DOMAIN row} :
                          \A act \in DOMAIN row : m <= row[act]

\* max(row.values())
RowMax(row) == CHOOSE m \in {row[act] : act \in DOMAIN row} :
                   \A act \in DOMAIN row : row[act] <= m

\* variant: among the keys of maximal value, the last one
ArgMaxLast(row) ==
    LET i == CHOOSE k \in 1..Len(actions) :
                 /\ \A j \in 1..Len(actions) : row[actions[j]] <= row[actions[k]]
                 /\ \A j \in (k + 1)..Len(actions) :
                        row[actions[j]] < row[actions[k]]
    IN  actions[i]

\* max(row, key=row.get): the first key, in insertion order, of maximal value
ArgMaxFirst(row) ==
    LET i == CHOOSE k \in 1..Len(actions) :
                 /\ \A j \in 1..Len(actions) : row[actions[j]] <= row[actions[k]]
                 /\ \A j \in 1..(k - 1) : row[actions[j]] < row[actions[k]]
    IN  actions[i]

\* variant: the greedy branch returns the maximal value, not its key
choose_action_returns_value(q, state, explore, pick) ==
    IF explore
    THEN [q |-> q, action |-> pick]
    ELSE LET q1 == EnsureRow(q, state)
         IN  [q |-> q1, action |-> RowMax(q1[state])]

\* variant: the greedy branch initialises the row whether it exists or not
choose_action_resets_row(q, state, explore, pick) ==
    IF explore
    THEN [q |-> q, action |-> pick]
    ELSE LET q1 == (state :> ZeroRow) @@ q
         IN  [q |-> q1, action |-> ArgMaxFirst(q1[state])]

\* explore: random.random() < self.epsilon; pick: random.choice(self.actions)
choose_action(q, state, explore, pick) ==
    IF explore
    THEN [q |-> q, action |-> pick]
    ELSE LET q1 == EnsureRow(q, state)
         IN  [q |-> q1, action |-> ArgMaxFirst(q1[state])]

\* variant: an action the row does not hold is read as 0.0 and stored
learn_defaults_unknown(q, state, action, reward, next_state) ==
    LET q1 == EnsureRow(EnsureRow(q, state), next_state)
        old_q == IF action \in DOMAIN q1[state] THEN q1[state][action] ELSE 0
        next_max == RowMax(q1[next_state])
        new_q == old_q + Mul(alpha, reward + Mul(gamma, next_max) - old_q)
    IN  [q |-> [q1 EXCEPT ![state] = (action :> new_q) @@ q1[state]],
         err |-> "none"]

\* both rows are created before the lookup q_table[state][action] can fail
learn(q, state, action, reward, next_state) ==
    LET q1 == EnsureRow(EnsureRow(q, state), next_state)
    IN  IF action \notin DOMAIN q1[state]
        THEN [q |-> q1, err |-> "KeyError"]
        ELSE LET old_q == q1[state][action]
                 next_max == RowMax(q1[next_state])
                 new_q == old_q + Mul(alpha, reward + Mul(gamma, next_max) - old_q)
             IN  [q |-> [q1 EXCEPT ![state][action] = new_q], err |-> "none"]

(* --------------------------- NAHEO_Brain_V2 ---------------------------- *)

Required == <<"V", "Disturbance", "SoC">>

\* variant: the state of charge is read with a default instead of a lookup
MissingField_soc_defaulted(obs) ==
    \E i \in 1..2 : Required[i] \notin obs.fields

\* sensor_data['V'], sensor_data['Disturbance'], sensor_data['SoC']
MissingField(obs) == \E i \in 1..Len(Required) : Required[i] \notin obs.fields

\* variant: the open-circuit voltage spans 2.5 V
OcvEst_wide(soc) == 6000 + Mul(2500, (soc * SCALE) \div 100)

\* ocv_est = 6.0 + (2.4 * (soc/100))
OcvEst(soc) == 6000 + Mul(2400, (soc * SCALE) \div 100)

\* variant: the penalty factor rises with the charge, (10 + soc) / 4
Reward_penalty_rising(v, soc, i_est) ==
    LET energy_penalty_factor == ((10 + soc) * SCALE) \div 4
    IN  Div(v, 8400) - Mul(Mul(energy_penalty_factor, i_est), 180)

\* energy_penalty_factor = (110 - soc) / 4
\* reward = (v/8.4) - (energy_penalty_factor * i_est * 0.18)
Reward(v, soc, i_est) ==
    LET energy_penalty_factor == ((110 - soc) * SCALE) \div 4
    IN  Div(v, 8400) - Mul(Mul(energy_penalty_factor, i_est), 180)

\* variant: the learned aggressiveness is used even under disturbance
Override_absent(disturbance, mpc_lambda) == mpc_lambda

\* if disturbance: mpc_lambda = 0.01
Override(disturbance, mpc_lambda) == IF disturbance THEN 10 ELSE mpc_lambda

\* target_v = 8.4 if disturbance else 7.5
TargetV(disturbance) == IF disturbance THEN 8400 ELSE 7500

\* variant: the delta is taken against the duty cycle held before compute
DeltaPwm_against_previous(pwm_out, u_before, u_after) ==
    Abs(pwm_out - u_before)

\* delta_pwm = abs(pwm_out - self.mpc.u), read after compute has stored self.u
DeltaPwm(pwm_out, u_before, u_after) == Abs(pwm_out - u_after)

\* variant: only the duty-cycle change decides the power mode
CpuMode_delta_only(disturbance, delta_pwm) ==
    IF delta_pwm > 10 THEN "HIGH" ELSE "LOW"

\* cpu_mode = "HIGH" if (disturbance or delta_pwm > 0.01) else "LOW"
CpuMode(disturbance, delta_pwm) ==
    IF disturbance \/ delta_pwm > 10 THEN "HIGH" ELSE "LOW"

(* ---------------------------- algorithms ------------------------------- *)

active_power == 10000

idle_power == 1000

wake_up_cost == 2000

\* probabilities are carried in ten-thousandths, so that the decisions of
\* the adaptive algorithm are those of the float arithmetic
UNIT == 10000

ProbMul(m, n) == (m * n) \div UNIT

ProbDiv(m, n) == (m * UNIT) \div n

learning_rate == 1000

prediction_threshold == 5000

time_bin_size == 60

max_history == 100

\* BaseAlgorithm.__init__ and the fields the subclasses add; a field a
\* class does not have keeps its empty value
BaseAlgorithm(name) ==
    [name |-> name, energy_consumed |-> 0, active_time |-> 0, idle_time |-> 0,
     activity_patterns |-> <<>>, pattern_counts |-> <<>>,
     recent_requests |-> <<>>, correct_predictions |-> 0,
     total_predictions |-> 0, was_previously_active |-> FALSE,
     schedule |-> <<>>]

AlwaysOnAlgorithm == BaseAlgorithm("Always-On")

NAHEOAdaptiveAlgorithm == BaseAlgorithm("NAHEO-Adaptive")

TimerBasedAlgorithm(schedule) ==
    [BaseAlgorithm("Timer-Based") EXCEPT !.schedule = schedule]

\* BaseAlgorithm.reset, which no subclass overrides
reset(alg) ==
    [alg EXCEPT !.energy_consumed = 0, !.active_time = 0, !.idle_time = 0]

\* int(timestamp // self.time_bin_size)
get_time_bin(timestamp) == timestamp \div time_bin_size

\* reading a defaultdict creates the missing key with the default
Touch(dict, key, default) ==
    IF key \in DOMAIN dict THEN dict ELSE (key :> default) @@ dict

RECURSIVE Sum(_)
Sum(seq) == IF seq = <<>> THEN 0 ELSE Head(seq) + Sum(Tail(seq))

\* seq[-10:]
LastTen(seq) ==
    IF Len(seq) <= 10 THEN seq ELSE SubSeq(seq, Len(seq) - 9, Len(seq))

\* NAHEOAdaptiveAlgorithm._predict_activity: the probability and the
\* object with the pattern of the time bin created if it was missing
predict_activity(alg, timestamp) ==
    LET time_bin == get_time_bin(timestamp)
        patterns == Touch(alg.activity_patterns, time_bin, 5000)
        base_prob == patterns[time_bin]
        recent == alg.recent_requests
        recent_activity_rate ==
            ProbDiv(Sum(LastTen(recent)), Min(10, Len(recent)))
    IN  [alg |-> [alg EXCEPT !.activity_patterns = patterns],
         ret |-> IF Len(recent) > 0
                 THEN ProbMul(7000, base_prob)
                        + ProbMul(3000, recent_activity_rate)
                 ELSE base_prob]

\* variant: a current request is weighed like any other step
should_activate_predicts_only(alg, timestamp, user_request, time_of_day) ==
    IF alg.name = "Always-On"
    THEN [alg |-> alg, ret |-> TRUE]
    ELSE IF alg.name = "Timer-Based"
    THEN [alg |-> alg,
          ret |-> \E i \in 1..Len(alg.schedule) :
                      /\ alg.schedule[i][1] <= time_of_day
                      /\ time_of_day < alg.schedule[i][2]]
    ELSE LET p == predict_activity(alg, timestamp)
         IN  [alg |-> p.alg,
              ret |-> \/ p.ret >= prediction_threshold
                      \/ alg.was_previously_active /\ p.ret >= 3000]

\* should_activate of the three classes: the decision and the object, which
\* a prediction may have touched
should_activate(alg, timestamp, user_request, time_of_day) ==
    IF alg.name = "Always-On"
    THEN [alg |-> alg, ret |-> TRUE]
    ELSE IF alg.name = "Timer-Based"
    THEN [alg |-> alg,
          ret |-> \E i \in 1..Len(alg.schedule) :
                      /\ alg.schedule[i][1] <= time_of_day
                      /\ time_of_day < alg.schedule[i][2]]
    ELSE IF user_request
    THEN [alg |-> alg, ret |-> TRUE]
    ELSE LET p == predict_activity(alg, timestamp)
         IN  [alg |-> p.alg,
              ret |-> \/ p.ret >= prediction_threshold
                      \/ alg.was_previously_active /\ p.ret >= 3000]

\* NAHEOAdaptiveAlgorithm.update
naheo_update(alg, timestamp, was_active, user_request) ==
    LET time_bin == get_time_bin(timestamp)
        energy == IF was_active
                  THEN (IF alg.was_previously_active THEN 0 ELSE wake_up_cost)
                         + active_power
                  ELSE idle_power
        patterns == Touch(alg.activity_patterns, time_bin, 5000)
        observed_value == IF user_request THEN UNIT ELSE 0
        counts == Touch(alg.pattern_counts, time_bin, 0)
        appended == Append(alg.recent_requests, IF user_request THEN 1 ELSE 0)
    IN  [alg EXCEPT
            !.energy_consumed = @ + energy,
            !.active_time = IF was_active THEN @ + 1000 ELSE @,
            !.idle_time = IF was_active THEN @ ELSE @ + 1000,
            !.was_previously_active = was_active,
            !.activity_patterns =
                [patterns EXCEPT ![time_bin] =
                    ProbMul(UNIT - learning_rate, patterns[time_bin])
                      + ProbMul(learning_rate, observed_value)],
            !.pattern_counts = [counts EXCEPT ![time_bin] = @ + 1],
            !.recent_requests = IF Len(appended) > max_history
                                THEN Tail(appended) ELSE appended,
            !.correct_predictions =
                IF was_active = user_request THEN @ + 1 ELSE @,
            !.total_predictions = @ + 1]

\* update of the three classes
update(alg, timestamp, was_active, user_request) ==
    IF alg.name = "Always-On"
    THEN IF was_active
         THEN [alg EXCEPT !.energy_consumed = @ + active_power,
                          !.active_time = @ + 1000]
         ELSE alg
    ELSE IF alg.name = "Timer-Based"
    THEN IF was_active
         THEN [alg EXCEPT !.energy_consumed = @ + active_power,
                          !.active_time = @ + 1000]
         ELSE [alg EXCEPT !.energy_consumed = @ + idle_power,
                          !.idle_time = @ + 1000]
    ELSE naheo_update(alg, timestamp, was_active, user_request)

(* -------------------------- SimulationEngine --------------------------- *)

\* the loop of run_simulation from time step t on
RECURSIVE Loop(_, _, _, _, _, _)
Loop(alg, user_pattern, t, requests_served, requests_missed, decisions) ==
    IF t = duration
    THEN [alg |-> alg, err |-> "none", requests_served |-> requests_served,
          requests_missed |-> requests_missed, decisions |-> decisions]
    ELSE LET user_request == user_pattern[t + 1]
             s == should_activate(alg, t, user_request, t % 86400)
             should_be_active == s.ret
         IN  Loop(update(s.alg, t, should_be_active, user_request),
                  user_pattern, t + 1,
                  IF user_request /\ should_be_active
                  THEN requests_served + 1 ELSE requests_served,
                  IF user_request /\ ~should_be_active
                  THEN requests_missed + 1 ELSE requests_missed,
                  Append(decisions, should_be_active))

\* variant: the algorithm is reset before the pattern's length is checked
run_simulation_resets_first(alg, user_pattern) ==
    IF Len(user_pattern) # duration
    THEN [alg |-> reset(alg), err |-> "ValueError", requests_served |-> 0,
          requests_missed |-> 0, decisions |-> <<>>]
    ELSE Loop(reset(alg), user_pattern, 0, 0, 0, <<>>)

\* SimulationEngine.run_simulation(algorithm, user_pattern)
run_simulation(alg, user_pattern) ==
    IF Len(user_pattern) # duration
    THEN [alg |-> alg, err |-> "ValueError", requests_served |-> 0,
          requests_missed |-> 0, decisions |-> <<>>]
    ELSE Loop(reset(alg), user_pattern, 0, 0, 0, <<>>)

(* ------------------------------ inputs --------------------------------- *)

AllFields == {"V", "Disturbance", "SoC"}

Obs(v, d, s) == [fields |-> AllFields, V |-> v, Disturbance |-> d, SoC |-> s]

\* observations carrying every field, with plausible values
Valid ==
    {Obs(7000, FALSE, 50), Obs(7000, TRUE, 50),
     Obs(8400, FALSE, 100), Obs(8400, TRUE, 100)}

\* a negative terminal voltage; a state of charge above 100 percent
OutOfRange == {Obs(-100, FALSE, 50), Obs(8400, FALSE, 120)}

\* observations with one key absent (the value shown for it is never read)
Incomplete ==
    {[fields |-> AllFields \ {f}, V |-> 8400, Disturbance |-> FALSE, SoC |-> 100] :
        f \in AllFields}

Observations == Valid \cup OutOfRange \cup Incomplete

InPhysicalRange(obs) == obs.V >= 0 /\ obs.SoC >= 0 /\ obs.SoC <= 100

NoObs == [fields |-> {}, V |-> 0, Disturbance |-> FALSE, SoC |-> 0]

\* arguments <<target, current, aggressiveness>> of direct calls of compute
ComputeArgs ==
    {<<1000, 0, 0>>, <<892, 1000, 0>>, <<1000, 0, 5000>>, <<1000, 0, -928>>}

\* arguments <<v_term, v_ocv>> of direct calls of update
UpdateArgs == {<<8400, 8400>>, <<7000, 7200>>}

\* battery percentages given to get_state
SocRange == -25 .. 125

\* (state, action, reward, next_state) given to learn; 2.0 and 0.01 are
\* not among the strategist's actions
LearnArgs ==
    {<<0, 100, 1000, 0>>, <<0, 1000, 1000, 20>>, <<0, 5000, 1000, 20>>,
     <<20, 5000, -500, 0>>, <<20, 2000, 1000, 0>>, <<0, 2000, 1000, 0>>,
     <<40, 10, 1000, 40>>}

\* (state, explore, pick) given to choose_action
ChooseArgs ==
    {<<0, FALSE, 100>>, <<20, FALSE, 100>>, <<40, FALSE, 100>>,
     <<0, TRUE, 5000>>}

\* (v_term, v_ocv) of the updates that measure a sag of 0.2 V or 0.01 V
SagArgs == {<<8200, 8400>>, <<8390, 8400>>}

\* (target, current, penalty_lambda) with the penalty growing without the
\* rest changing
LimitArgs ==
    {<<t, c, l>> : t \in {892, 1000}, c \in {0, 1000},
                   l \in {0, 1000, 10000, 100000, 1000000}}

\* observations of the runs that follow the reward: a full battery at rest
\* and a half-empty one under load
RewardObs == {Obs(8400, FALSE, 100), Obs(7000, FALSE, 50)}

\* the algorithm objects handed to the engine; the timer is scheduled for
\* the second of the day 1 only
Algorithms ==
    {AlwaysOnAlgorithm, NAHEOAdaptiveAlgorithm,
     TimerBasedAlgorithm(<<<<1, 2>>>>)}

\* user patterns: every pattern of the configured duration, every pattern
\* one step shorter and the all-true pattern one step longer
UserPatterns ==
    [1..duration -> BOOLEAN] \cup [1..(duration - 1) -> BOOLEAN]
        \cup {[i \in 1..(duration + 1) |-> TRUE]}

\* observations of the two-instance runs
SharedObs == {Obs(7000, FALSE, 50), Obs(8400, TRUE, 100)}

(* ------------------------------ state ---------------------------------- *)

\* what the last call was, what it was given and what it returned
Blank ==
    [op |-> "init", err |-> "none", obs |-> NoObs,
     pwm_out |-> 0, cpu_mode |-> "none", i_est |-> 0,
     v_term |-> 0, v_ocv |-> 0, current_state |-> 0, reward |-> 0,
     chosen |-> 0, target |-> 0, current |-> 0, lambda |-> 0,
     u_prev |-> 0, delta_pwm |-> 0,
     soc |-> 0, state |-> 0, action |-> 0, next_state |-> 0,
     explore |-> FALSE]

\* the fields of a freshly constructed NAHEO_Brain_V2
Fresh ==
    [x |-> x0, P |-> P0, u |-> u0, q_table |-> <<>>,
     last_soc_state |-> 100, last_action |-> 1000]

\* variant: the brain starts with the aggressive action as its last action
Init_aggressive_default ==
    /\ x = x0
    /\ P = P0
    /\ u = u0
    /\ q_table = <<>>
    /\ last_soc_state = 100
    /\ last_action = 100
    /\ last = Blank
    /\ steps = 0
    /\ rest = 0
    /\ random_calls = 0
    /\ peer = Fresh
    /\ algorithm = NAHEOAdaptiveAlgorithm
    /\ results = <<>>

Init ==
    /\ x = x0
    /\ P = P0
    /\ u = u0
    /\ q_table = <<>>
    /\ last_soc_state = 100
    /\ last_action = 1000
    /\ last = Blank
    /\ steps = 0
    /\ rest = 0
    /\ random_calls = 0
    /\ peer = Fresh
    /\ algorithm = NAHEOAdaptiveAlgorithm
    /\ results = <<>>

(* ----------------------------- operations ------------------------------ *)

\* NAHEO_Brain_V2.run_cycle(sensor_data), the whole handler
CycleCall(obs, explore, pick) ==
    /\ steps' = steps + 1
    /\ UNCHANGED <<algorithm, results>>
    /\ peer' = peer
    /\ IF MissingField(obs)
       THEN /\ last' = [Blank EXCEPT !.op = "run_cycle", !.err = "KeyError",
                                     !.obs = obs]
            /\ UNCHANGED <<x, P, u, q_table, last_soc_state, last_action,
                           rest, random_calls>>
       ELSE /\ Representable(x, P)
            /\ \E v \in {obs.V}, disturbance \in {obs.Disturbance},
                  soc \in {obs.SoC} :
               \E ocv_est \in {OcvEst(soc)} :
               \E g \in {ghost_update(x, P, v, ocv_est)} :
               \E i_est \in {g.ret}, current_state \in {get_state(soc)} :
               \E reward \in {Reward(v, soc, i_est)} :
               \E l \in {learn(q_table, last_soc_state, last_action, reward,
                               current_state)} :
               \E c \in {choose_action(l.q, current_state, explore, pick)} :
               \E mpc_lambda \in {Override(disturbance, c.action)},
                  target_v \in {TargetV(disturbance)} :
               \E m \in {compute(u, Div(target_v, 8400), Div(v, 8400),
                                 mpc_lambda)} :
               \E pwm_out \in {m.ret} :
               \E delta_pwm \in {DeltaPwm(pwm_out, u, m.u)} :
               \E cpu_mode \in {CpuMode(disturbance, delta_pwm)} :
               \E seen \in {[Blank EXCEPT !.op = "run_cycle", !.obs = obs,
                                          !.v_term = v, !.v_ocv = ocv_est,
                                          !.i_est = i_est,
                                          !.current_state = current_state,
                                          !.reward = reward, !.u_prev = u,
                                          !.state = last_soc_state,
                                          !.action = last_action,
                                          !.next_state = current_state]} :
                   /\ x' = g.x
                   /\ P' = g.P
                   /\ rest' = Rested(rest, v, ocv_est)
                   /\ IF l.err # "none"
                      THEN /\ q_table' = l.q
                           /\ last' = [seen EXCEPT !.err = l.err]
                           /\ UNCHANGED <<u, last_soc_state, last_action,
                                          random_calls>>
                      ELSE /\ q_table' = c.q
                           /\ random_calls' = random_calls + 1
                           /\ last_soc_state' = current_state
                           /\ last_action' = c.action
                           /\ u' = m.u
                           /\ last' = [seen EXCEPT
                                  !.explore = explore,
                                  !.chosen = c.action,
                                  !.target = Div(target_v, 8400),
                                  !.current = Div(v, 8400),
                                  !.lambda = mpc_lambda,
                                  !.err = m.err,
                                  !.pwm_out = IF m.err = "none" THEN pwm_out ELSE 0,
                                  !.delta_pwm = IF m.err = "none" THEN delta_pwm ELSE 0,
                                  !.cpu_mode = IF m.err = "none" THEN cpu_mode
                                               ELSE "none"]

\* run_cycle, for as many calls as the model follows
RunCycle(obs, explore, pick) ==
    /\ steps < MaxSteps
    /\ CycleCall(obs, explore, pick)

\* a direct call of TrueMPC_Reactor.compute on the brain's controller
MpcCompute(target_v_norm, current_v_norm, penalty_lambda) ==
    /\ steps < MaxSteps
    /\ steps' = steps + 1
    /\ UNCHANGED <<algorithm, results>>
    /\ LET m == compute(u, target_v_norm, current_v_norm, penalty_lambda)
       IN  /\ u' = m.u
           /\ last' = [Blank EXCEPT !.op = "compute", !.err = m.err,
                                    !.pwm_out = m.ret,
                                    !.target = target_v_norm,
                                    !.current = current_v_norm,
                                    !.lambda = penalty_lambda, !.u_prev = u]
    /\ UNCHANGED <<x, P, q_table, last_soc_state, last_action,
                   rest, random_calls, peer>>

\* a direct call of EKF_GhostSensor.update on the brain's estimator
UpdateCall(v_term, v_ocv) ==
    /\ steps' = steps + 1
    /\ UNCHANGED <<algorithm, results>>
    /\ Representable(x, P)
    /\ LET g == ghost_update(x, P, v_term, v_ocv)
       IN  /\ x' = g.x
           /\ P' = g.P
           /\ last' = [Blank EXCEPT !.op = "update", !.i_est = g.ret,
                                    !.v_term = v_term, !.v_ocv = v_ocv]
    /\ rest' = Rested(rest, v_term, v_ocv)
    /\ UNCHANGED <<u, q_table, last_soc_state, last_action,
                   random_calls, peer>>

\* update, for as many calls as the model follows
GhostUpdate(v_term, v_ocv) ==
    /\ steps < MaxSteps
    /\ UpdateCall(v_term, v_ocv)

\* a direct call of QLearning_Strategist.get_state on the brain's strategist
GetState(soc) ==
    /\ steps < MaxSteps
    /\ steps' = steps + 1
    /\ UNCHANGED <<algorithm, results>>
    /\ last' = [Blank EXCEPT !.op = "get_state", !.soc = soc,
                             !.current_state = get_state(soc)]
    /\ UNCHANGED <<x, P, u, q_table, last_soc_state, last_action,
                   rest, random_calls, peer>>

\* a direct call of QLearning_Strategist.choose_action; it draws
\* random.random() before anything else
ChooseAction(state, explore, pick) ==
    /\ steps < MaxSteps
    /\ steps' = steps + 1
    /\ UNCHANGED <<algorithm, results>>
    /\ random_calls' = random_calls + 1
    /\ LET c == choose_action(q_table, state, explore, pick)
       IN  /\ q_table' = c.q
           /\ last' = [Blank EXCEPT !.op = "choose_action", !.state = state,
                                    !.explore = explore,
                                    !.chosen = c.action]
    /\ UNCHANGED <<x, P, u, last_soc_state, last_action, rest, peer>>

\* a direct call of QLearning_Strategist.learn
Learn(state, action, reward, next_state) ==
    /\ steps < MaxSteps
    /\ steps' = steps + 1
    /\ UNCHANGED <<algorithm, results>>
    /\ LET l == learn(q_table, state, action, reward, next_state)
       IN  /\ q_table' = l.q
           /\ last' = [Blank EXCEPT !.op = "learn", !.err = l.err,
                                    !.state = state, !.action = action,
                                    !.reward = reward,
                                    !.next_state = next_state]
    /\ UNCHANGED <<x, P, u, last_soc_state, last_action,
                   rest, random_calls, peer>>

\* run_cycle as a function of the fields of the instance it is called on:
\* the fields afterwards, the error raised, the decision returned and the
\* number of random.random() calls made
run_cycle(st, obs, explore, pick) ==
    IF MissingField(obs)
    THEN [st |-> st, err |-> "KeyError", pwm_out |-> 0, cpu_mode |-> "none",
          i_est |-> 0, drawn |-> 0]
    ELSE LET ocv_est == OcvEst(obs.SoC)
             g == ghost_update(st.x, st.P, obs.V, ocv_est)
             current_state == get_state(obs.SoC)
             reward == Reward(obs.V, obs.SoC, g.ret)
             l == learn(st.q_table, st.last_soc_state, st.last_action,
                        reward, current_state)
             c == choose_action(l.q, current_state, explore, pick)
             m == compute(st.u, Div(TargetV(obs.Disturbance), 8400),
                          Div(obs.V, 8400),
                          Override(obs.Disturbance, c.action))
             delta_pwm == DeltaPwm(m.ret, st.u, m.u)
         IN  IF l.err # "none"
             THEN [st |-> [st EXCEPT !.x = g.x, !.P = g.P, !.q_table = l.q],
                   err |-> l.err, pwm_out |-> 0, cpu_mode |-> "none",
                   i_est |-> g.ret, drawn |-> 0]
             ELSE [st |-> [x |-> g.x, P |-> g.P, u |-> m.u, q_table |-> c.q,
                           last_soc_state |-> current_state,
                           last_action |-> c.action],
                   err |-> m.err,
                   pwm_out |-> IF m.err = "none" THEN m.ret ELSE 0,
                   cpu_mode |-> IF m.err = "none"
                                THEN CpuMode(obs.Disturbance, delta_pwm)
                                ELSE "none",
                   i_est |-> g.ret, drawn |-> 1]

\* run_cycle called on the second instance of the process
PeerRunCycle(obs, explore, pick) ==
    /\ steps < MaxSteps
    /\ steps' = steps + 1
    /\ UNCHANGED <<algorithm, results>>
    /\ MissingField(obs) \/ Representable(peer.x, peer.P)
    /\ LET r == run_cycle(peer, obs, explore, pick)
       IN  /\ peer' = r.st
           /\ random_calls' = random_calls + r.drawn
           /\ last' = [Blank EXCEPT !.op = "peer_run_cycle", !.err = r.err,
                                    !.obs = obs, !.pwm_out = r.pwm_out,
                                    !.cpu_mode = r.cpu_mode,
                                    !.i_est = r.i_est]
    /\ UNCHANGED <<x, P, u, q_table, last_soc_state, last_action, rest>>

Next ==
    \/ \E obs \in Observations, explore \in BOOLEAN, pick \in ActionSet :
           RunCycle(obs, explore, pick)
    \/ \E args \in ComputeArgs : MpcCompute(args[1], args[2], args[3])
    \/ \E args \in UpdateArgs : GhostUpdate(args[1], args[2])

Spec == Init /\ [][Next]_vars

\* an algorithm object is constructed to be handed to the engine
NewAlgorithm(alg) ==
    /\ algorithm' = alg
    /\ results' = <<>>
    /\ UNCHANGED <<x, P, u, q_table, last_soc_state, last_action, last,
                   steps, rest, random_calls, peer>>

\* SimulationEngine.run_simulation on the algorithm object; its result is
\* appended to the results, or the error it raised
RunSimulation(user_pattern) ==
    /\ Len(results) < MaxRuns
    /\ LET r == run_simulation(algorithm, user_pattern)
       IN  /\ algorithm' = r.alg
           /\ results' = Append(results,
                  [algorithm_name |-> algorithm.name, err |-> r.err,
                   user_pattern |-> user_pattern, decisions |-> r.decisions,
                   energy_consumed |-> r.alg.energy_consumed,
                   active_time |-> r.alg.active_time,
                   idle_time |-> r.alg.idle_time,
                   requests_served |-> r.requests_served,
                   requests_missed |-> r.requests_missed])
    /\ UNCHANGED <<x, P, u, q_table, last_soc_state, last_action, last,
                   steps, rest, random_calls, peer>>

\* runs of the simulation engine on each of the algorithms
NextSim ==
    \/ \E alg \in Algorithms : NewAlgorithm(alg)
    \/ \E user_pattern \in UserPatterns : RunSimulation(user_pattern)

SpecSim == Init /\ [][NextSim]_vars

\* update with a sag, at the start of a settling run
LoadedUpdate(v_term, v_ocv) ==
    /\ rest = 0
    /\ steps < MaxLoad
    /\ UpdateCall(v_term, v_ocv)

\* update with v_term equal to v_ocv
RestingUpdate ==
    /\ rest < MaxRest
    /\ UpdateCall(8400, 8400)

\* the estimator under a few updates with sag, then updates without
NextSettle ==
    \/ \E args \in SagArgs : LoadedUpdate(args[1], args[2])
    \/ RestingUpdate

SpecSettle == Init /\ [][NextSettle]_vars

\* direct calls of compute with growing penalties
NextLimit == \E args \in LimitArgs : MpcCompute(args[1], args[2], args[3])

SpecLimit == Init /\ [][NextLimit]_vars

\* cycles on an estimator that direct updates have left with a small or a
\* large current estimate
NextReward ==
    \/ \E args \in SagArgs : GhostUpdate(args[1], args[2])
    \/ \E obs \in RewardObs, explore \in BOOLEAN, pick \in {100, 5000} :
           RunCycle(obs, explore, pick)

SpecReward == Init /\ [][NextReward]_vars

\* direct calls of get_state
NextBins == \E soc \in SocRange : GetState(soc)

SpecBins == Init /\ [][NextBins]_vars

\* direct calls of the strategist's learn and choose_action
NextRL ==
    \/ \E args \in LearnArgs : Learn(args[1], args[2], args[3], args[4])
    \/ \E args \in ChooseArgs : ChooseAction(args[1], args[2], args[3])

SpecRL == Init /\ [][NextRL]_vars

\* two instances in one process, their run_cycle calls interleaved
NextShared ==
    \/ \E obs \in SharedObs, explore \in BOOLEAN, pick \in {100, 5000} :
           RunCycle(obs, explore, pick)
    \/ \E obs \in SharedObs, explore \in BOOLEAN, pick \in {100, 5000} :
           PeerRunCycle(obs, explore, pick)

SpecShared == Init /\ [][NextShared]_vars

(* ------------------------------ claims --------------------------------- *)

\* the last call was a run_cycle that returned a decision
CycleReturned == last.op = "run_cycle" /\ last.err = "none"

\* this step is a call of run_cycle / compute
CycleStep == steps' = steps + 1 /\ last'.op = "run_cycle"

ComputeStep == steps' = steps + 1 /\ last'.op = "compute"

BrainState == <<x, P, u, q_table, last_soc_state, last_action>>

\* the observation does not carry all of 'V', 'Disturbance' and 'SoC'
LacksField(obs) == \E f \in {"V", "Disturbance", "SoC"} : f \notin obs.fields

\* C1: every decision returned by run_cycle has a duty cycle in [0.1, 1.0],
\* a power mode that is "HIGH" or "LOW" and an estimated current >= 0.
C1_DecisionBounds ==
    CycleReturned =>
        /\ 100 <= last.pwm_out /\ last.pwm_out <= 1000
        /\ last.cpu_mode \in {"HIGH", "LOW"}
        /\ last.i_est >= 0

\* a later cycle returned a duty cycle at the lower limit with a positive
\* current estimate
C1_Witness ==
    /\ CycleReturned /\ steps >= 2
    /\ last.pwm_out = 100 /\ last.i_est > 0

\* C2: after every update the stored current estimate is >= 0, the stored
\* resistance estimate is >= 0.05, and update returns the stored current.
C2_EstimatorClamped ==
    /\ x[1] >= 0
    /\ x[2] >= 50
    /\ (last.op = "update" \/ CycleReturned) => last.i_est = x[1]

\* an update left the resistance on its floor with a positive current
C2_Witness ==
    /\ last.op \in {"update", "run_cycle"} /\ last.err = "none"
    /\ x[2] = 50 /\ x[1] > 0 /\ last.i_est = x[1]

\* C3: the stored duty cycle is always in [0.1, 1.0] and a compute call
\* returns exactly the value it stored.
C3_DutyCycleRange ==
    /\ 100 <= u /\ u <= 1000
    /\ (last.op = "compute" /\ last.err = "none") => last.pwm_out = u

\* a direct compute with aggressiveness >= 0 moved u off its previous value
C3_Witness ==
    /\ last.op = "compute" /\ last.err = "none" /\ last.lambda >= 0
    /\ u # last.u_prev /\ last.pwm_out = u

\* C4: a run_cycle called with the disturbance flag set returns "HIGH".
C4_DisturbanceHigh ==
    (CycleReturned /\ last.obs.Disturbance) => last.cpu_mode = "HIGH"

\* a disturbed cycle after earlier calls, whose duty-cycle delta was below
\* the threshold
C4_Witness ==
    /\ CycleReturned /\ last.obs.Disturbance /\ steps >= 2
    /\ last.delta_pwm <= 10 /\ last.cpu_mode = "HIGH"

\* C5: the controller is called with aggressiveness 0.01 and target 8.4/8.4
\* under disturbance, and with the chosen action and target 7.5/8.4 otherwise.
C5_ControllerInputs ==
    CycleReturned =>
        IF last.obs.Disturbance
        THEN last.lambda = 10 /\ last.target = (8400 * SCALE) \div 8400
        ELSE last.lambda = last.chosen /\ last.target = (7500 * SCALE) \div 8400

\* a disturbed cycle in which the learner had chosen the conservative action
C5_Witness ==
    /\ CycleReturned /\ last.obs.Disturbance
    /\ last.chosen = 5000 /\ last.lambda = 10

\* C6: after every run_cycle last_action is the action choose_action
\* returned (never the override 0.01) and last_soc_state is this cycle's bin;
\* last_action is always in the action set and learn never fails in run_cycle.
C6_Bookkeeping ==
    /\ last_action \in ActionSet
    /\ CycleReturned =>
           /\ last_action = last.chosen
           /\ last_action # 10
           /\ last_soc_state = (last.obs.SoC \div 20) * 20
    /\ (last.op = "run_cycle" /\ last.err # "none") => LacksField(last.obs)

\* a disturbed cycle (controller given 0.01) that stored the explored action
C6_Witness ==
    /\ CycleReturned /\ last.obs.Disturbance /\ last.lambda = 10
    /\ last_action = 5000 /\ last_soc_state = 40

\* C7: the power mode of a cycle (on a plausible observation) is "HIGH"
\* exactly when the disturbance flag is set or the duty cycle moved by more
\* than 0.01 from its value before this cycle's controller update.
C7_PowerModeFromChange ==
    (CycleReturned /\ InPhysicalRange(last.obs)) =>
        (last.cpu_mode = "HIGH"
            <=> (last.obs.Disturbance \/ Abs(last.pwm_out - last.u_prev) > 10))

\* C8: a run_cycle whose observation lacks a required field fails and leaves
\* estimator, controller, policy table and bookkeeping unchanged.
C8_MissingFieldFails ==
    [][(CycleStep /\ LacksField(last'.obs))
          => (last'.err = "KeyError" /\ UNCHANGED BrainState)]_vars

\* a KeyError raised after earlier calls had already changed the state
C8_Witness ==
    /\ last.op = "run_cycle" /\ last.err = "KeyError"
    /\ LacksField(last.obs)
    /\ steps >= 2 /\ q_table # <<>> /\ x # x0

\* C9: a run_cycle whose observation has a negative voltage or a state of
\* charge outside [0, 100] fails and does not mutate any state.
C9_OutOfRangeFails ==
    [][(CycleStep /\ ~LacksField(last'.obs) /\ ~InPhysicalRange(last'.obs))
          => (last'.err # "none" /\ UNCHANGED BrainState)]_vars

\* C10: when the denominator is zero compute fails with an error and the
\* stored duty cycle is unchanged.
C10_ZeroDenominatorFails ==
    [][(ComputeStep /\ Denominator(last'.lambda) = 0)
          => (last'.err = "ZeroDivisionError" /\ u' = u)]_vars

\* a compute that failed on a zero denominator while u was off its initial
\* value
C10_Witness ==
    /\ last.op = "compute" /\ last.err = "ZeroDivisionError"
    /\ Denominator(last.lambda) = 0 /\ u # u0

\* C11: with a = 0.9 and b = 0.8 the denominator is strictly positive for
\* every aggressiveness >= 0 given to compute, run_cycle only passes 0.01,
\* 0.1, 1.0 or 5.0, and compute never divides by zero inside run_cycle.
C11_DenominatorPositive ==
    /\ (last.op \in {"compute", "run_cycle"} /\ last.lambda >= 0)
           => Denominator(last.lambda) > 0
    /\ CycleReturned => last.lambda \in {10, 100, 1000, 5000}
    /\ last.op = "run_cycle" => last.err # "ZeroDivisionError"

\* a cycle handed the controller the conservative action 5.0 and returned
C11_Witness ==
    /\ CycleReturned /\ last.lambda = 5000
    /\ Denominator(last.lambda) = 5928

\* a step that is a direct call of learn
LearnStep == steps' = steps + 1 /\ last'.op = "learn"

\* a step that is a direct call of choose_action
ChooseStep == steps' = steps + 1 /\ last'.op = "choose_action"

\* the value estimate of (state, act) before a call; a row not yet in the
\* table is created holding 0.0 for every action
OldValue(state, act) ==
    IF state \in DOMAIN q_table THEN q_table[state][act] ELSE 0

\* the largest value estimate of a bin's row before a call
BestOld(state) ==
    CHOOSE m \in {OldValue(state, act) : act \in {100, 1000, 5000}} :
        \A act \in {100, 1000, 5000} : OldValue(state, act) <= m

\* C12: learn called with an action that is not 0.1, 1.0 or 5.0 fails with
\* an error, and no value estimate of a (bin, action) entry that existed
\* before the call is changed.
C12_UnknownActionFails ==
    [][(LearnStep /\ last'.action \notin {100, 1000, 5000})
           => /\ last'.err = "KeyError"
              /\ \A state \in DOMAIN q_table :
                     /\ state \in DOMAIN q_table'
                     /\ q_table'[state] = q_table[state]]_vars

\* learn failed on the action 2.0 and a learned estimate stands as it was
C12_Witness ==
    /\ last.op = "learn" /\ last.err = "KeyError" /\ last.action = 2000
    /\ 0 \in DOMAIN q_table /\ q_table[0][100] = 100

\* C13: get_state(soc) is the largest multiple of 20 that is at most soc,
\* and for soc in [0, 100) it is one of 0, 20, 40, 60, 80.
C13_BinFloor ==
    last.op = "get_state"
        => /\ last.current_state % 20 = 0
           /\ last.current_state <= last.soc
           /\ last.soc < last.current_state + 20
           /\ (0 <= last.soc /\ last.soc < 100)
                  => last.current_state \in {0, 20, 40, 60, 80}

\* get_state(39) returned the bin 20
C13_Witness ==
    last.op = "get_state" /\ last.soc = 39 /\ last.current_state = 20

\* C14: a greedy choose_action returns, among the actions of maximal value
\* in the bin's row, the first in the declaration order 0.1, 1.0, 5.0; for
\* a bin not visited before that is 0.1.
C14_GreedyFirstMax ==
    [][(ChooseStep /\ ~last'.explore)
           => LET order == <<100, 1000, 5000>>
                  row == q_table'[last'.state]
              IN  /\ \E k \in 1..3 :
                         /\ last'.chosen = order[k]
                         /\ \A j \in 1..3 : row[order[j]] <= row[order[k]]
                         /\ \A j \in 1..(k - 1) : row[order[j]] < row[order[k]]
                  /\ last'.state \notin DOMAIN q_table
                         => last'.chosen = 100]_vars

\* a greedy choice among two maximal actions, 1.0 and 5.0, returned 1.0
C14_Witness ==
    /\ last.op = "choose_action" /\ ~last.explore /\ last.chosen = 1000
    /\ q_table[last.state][1000] = q_table[last.state][5000]
    /\ q_table[last.state][100] < q_table[last.state][1000]

\* C15: learn(bin, action, reward, next_bin) sets Q[bin][action] to
\* old + alpha * (reward + gamma * max(Q[next_bin]) - old), the maximum
\* taken over the row of next_bin as it was before the update, also when
\* next_bin = bin, and changes no other entry that existed before the call.
C15_LearnUpdate ==
    [][(LearnStep /\ last'.err = "none")
           => LET state == last'.state
                  action == last'.action
                  old == OldValue(state, action)
                  best == BestOld(last'.next_state)
              IN  /\ q_table'[state][action] =
                         old + Mul(alpha, last'.reward + Mul(gamma, best) - old)
                  /\ \A s \in DOMAIN q_table :
                         \A act \in DOMAIN q_table[s] :
                             <<s, act>> # <<state, action>>
                                 => q_table'[s][act] = q_table[s][act]]_vars

\* the second learn on (0, 0.1) with next_bin = 0 used the row's old maximum
C15_Witness ==
    /\ last.op = "learn" /\ last.err = "none"
    /\ last.state = 0 /\ last.next_state = 0 /\ last.action = 100
    /\ q_table[0][100] = 199

\* a step that is a run_cycle call on the second instance
PeerStep == steps' = steps + 1 /\ last'.op = "peer_run_cycle"

\* C17: instances share no mutable state: a run_cycle on another instance
\* changes neither the fields of this instance nor the position of the
\* generator that this instance's exploration draws are taken from, so its
\* decisions are the same with and without the other's calls interleaved.
C17_InstancesIndependent ==
    [][PeerStep => UNCHANGED <<BrainState, random_calls>>]_vars

\* a step that is a direct call of update
UpdateStep == steps' = steps + 1 /\ last'.op = "update"

C19_SteadyRun ==
    [][(CycleStep /\ x[1] = 0 /\ last'.obs = Obs(8400, FALSE, 100))
           => /\ last'.err = "none"
              /\ last'.i_est = 0 /\ x'[1] = 0
              /\ last'.cpu_mode = "LOW"]_vars

\* the third cycle in a row on a full battery at rest returned 0 A and LOW
C19_Witness ==
    /\ CycleReturned /\ last.obs = Obs(8400, FALSE, 100)
    /\ steps = 3 /\ rest = 3 /\ random_calls = 3
    /\ last.i_est = 0 /\ last.cpu_mode = "LOW"

\* C20: for a fixed target, current voltage and u_prev in [0.1, 1.0] the
\* value compute returns is within C / (b^2 + 0.5*a*b^2 + aggressiveness)
\* of u_prev, with C not depending on the aggressiveness, so the distance
\* tends to 0 as the aggressiveness grows.
C20_EffortSuppressed ==
    [][(ComputeStep /\ last'.err = "none" /\ last'.lambda >= 0)
           => LET t == last'.target
                  c == last'.current
                  u_prev == last'.u_prev
                  C == Abs(Mul(800, t - Mul(900, c))
                             + Mul(360, t - Mul(900, c) - Mul(800, u_prev))
                             - Mul(928, u_prev))
                  distance == Abs(last'.pwm_out - u_prev)
              IN  /\ 100 <= u_prev /\ u_prev <= 1000
                  /\ distance <= Div(C, 928 + last'.lambda) + Rounding
                  /\ last'.lambda >= 1000000 => distance <= Rounding]_vars

\* with aggressiveness 1000 the controller, holding a duty cycle below
\* 1.0, returned a value within 0.003 of it
C20_Witness ==
    /\ last.op = "compute" /\ last.err = "none" /\ last.lambda = 1000000
    /\ last.u_prev < 1000
    /\ Abs(last.pwm_out - last.u_prev) <= 3

\* a run_cycle step whose observation has every field, so that it reaches
\* the strategist
FullCycleStep == CycleStep /\ ~LacksField(last'.obs)

\* the policy table after one learn(state, action, reward, next_state) on
\* the table before the step
AfterLearn(state, action, reward, next_state) ==
    [s \in DOMAIN q_table \cup {state, next_state} |->
        [act \in {100, 1000, 5000} |->
            IF s = state /\ act = action
            THEN OldValue(s, act)
                   + Mul(alpha, reward + Mul(gamma, BestOld(next_state))
                                  - OldValue(s, act))
            ELSE OldValue(s, act)]]

\* act is the first action, in the order 0.1, 1.0, 5.0, of maximal value
FirstBest(row, act) ==
    LET order == <<100, 1000, 5000>>
    IN  \E k \in 1..3 :
            /\ act = order[k]
            /\ \A j \in 1..3 : row[order[j]] <= row[order[k]]
            /\ \A j \in 1..(k - 1) : row[order[j]] < row[order[k]]

\* C21: credit assignment is delayed by one cycle: a cycle calls learn with
\* the bin and action stored at the end of the cycle before (nothing else
\* changes them), with the reward of this cycle's voltage and current
\* estimate and with this cycle's bin; the first cycle calls it with bin 100
\* and action 1.0; and learn runs before choose_action, so a greedy choice
\* is made on the row as learn left it.
C21_DelayedCredit ==
    [][/\ FullCycleStep =>
            /\ last'.state = last_soc_state /\ last'.action = last_action
            /\ random_calls = 0 => (last'.state = 100 /\ last'.action = 1000)
            /\ last'.next_state = (last'.obs.SoC \div 20) * 20
            /\ last'.reward = Div(last'.obs.V, 8400)
                 - Mul(Mul(((110 - last'.obs.SoC) * SCALE) \div 4, x'[1]), 180)
            /\ q_table'[last'.state][last'.action] =
                   AfterLearn(last'.state, last'.action, last'.reward,
                              last'.next_state)[last'.state][last'.action]
            /\ last_soc_state' = last'.next_state
            /\ last_action' = last'.chosen
            /\ ~last'.explore
                   => FirstBest(q_table'[last'.next_state], last'.chosen)
       /\ ~CycleStep => UNCHANGED <<last_soc_state, last_action>>]_vars

\* the second cycle credited the action 0.1 chosen in bin 40 by the first,
\* and its greedy choice moved to 1.0 on the row learn had just lowered
C21_Witness ==
    /\ CycleReturned /\ random_calls = 2
    /\ last.state = 40 /\ last.action = 100 /\ last.next_state = 40
    /\ q_table[40][100] < 0
    /\ ~last.explore /\ last.chosen = 1000

\* C22: a successful run_cycle makes one estimator update, one learn, one
\* choose_action and one compute, each working on what the step before it
\* left: the reward uses the updated estimate, the choice is made after
\* learn, the chosen action is stored before the override replaces it, the
\* controller gets the overridden value, and the mode is decided from the
\* controller's result.
C22_OneOfEachInOrder ==
    [][(CycleStep /\ last'.err = "none") =>
          LET obs == last'.obs
              g == ghost_update(x, P, obs.V, last'.v_ocv)
          IN  /\ x' = g.x /\ P' = g.P /\ last'.i_est = g.ret
              /\ last'.reward = Reward(obs.V, obs.SoC, last'.i_est)
              /\ q_table' = AfterLearn(last_soc_state, last_action,
                                       last'.reward, last'.current_state)
              /\ random_calls' = random_calls + 1
              /\ last'.explore \/ FirstBest(q_table'[last'.current_state],
                                            last'.chosen)
              /\ last_action' = last'.chosen
              /\ last_action' \in {100, 1000, 5000}
              /\ last'.lambda = IF obs.Disturbance THEN 10 ELSE last'.chosen
              /\ u' = Max(100, Min(1000,
                           Div(Numerator(u, last'.target, last'.current,
                                         last'.lambda),
                               Denominator(last'.lambda))))
              /\ last'.pwm_out = u'
              /\ last'.cpu_mode = "HIGH"
                     <=> (obs.Disturbance \/ Abs(last'.pwm_out - u') > 10)]_vars

\* a disturbed cycle moved the estimate, the table and the duty cycle, and
\* stored the action it chose, not the 0.01 it gave the controller
C22_Witness ==
    /\ CycleReturned /\ last.obs.Disturbance
    /\ last.lambda = 10 /\ last_action = 1000
    /\ last.i_est > 0 /\ last.pwm_out # last.u_prev
    /\ q_table[100][1000] # 0

\* C23: the policy table only grows: no step removes a row, every row has
\* exactly the keys 0.1, 1.0 and 5.0, and a row appears, with 0 for every
\* action, when learn first uses its bin as bin or next_bin or when the
\* greedy branch of choose_action first reads it; the exploring branch
\* creates no row.
C23_TableOnlyGrows ==
    [][/\ \A s \in DOMAIN q_table : s \in DOMAIN q_table'
       /\ \A s \in DOMAIN q_table' : DOMAIN q_table'[s] = {100, 1000, 5000}
       /\ LearnStep =>
              /\ DOMAIN q_table' =
                     DOMAIN q_table \cup {last'.state, last'.next_state}
              /\ \A s \in DOMAIN q_table' \ DOMAIN q_table :
                     \A act \in {100, 1000, 5000} :
                         \/ q_table'[s][act] = 0
                         \/ /\ last'.err = "none"
                            /\ s = last'.state /\ act = last'.action
                            /\ q_table'[s][act] =
                                   Mul(alpha, last'.reward
                                         + Mul(gamma, BestOld(last'.next_state)))
       /\ ChooseStep =>
              /\ DOMAIN q_table' =
                     IF last'.explore THEN DOMAIN q_table
                     ELSE DOMAIN q_table \cup {last'.state}
              /\ \A s \in DOMAIN q_table' \ DOMAIN q_table :
                     \A act \in {100, 1000, 5000} : q_table'[s][act] = 0]_vars

\* a greedy choose_action created the row of bin 40, all zeros, next to a
\* row that learn had created and written before
C23_Witness ==
    /\ last.op = "choose_action" /\ ~last.explore /\ last.state = 40
    /\ DOMAIN q_table = {0, 20, 40}
    /\ q_table[0][1000] = 100
    /\ \A act \in {100, 1000, 5000} : q_table[40][act] = 0

\* C24: with every run_cycle given a SoC in [0, 100], the bins that key the
\* policy table are always among 0, 20, 40, 60 and 80.
C24_FiveBins == DOMAIN q_table \subseteq {0, 20, 40, 60, 80}

\* C25: the duty-cycle delta is taken after the controller has stored its
\* new output, so it is 0 in every cycle, and run_cycle returns HIGH
\* exactly when the disturbance flag of that cycle is set.
C25_ModeFollowsDisturbance ==
    CycleReturned
        => /\ last.delta_pwm = 0
           /\ last.cpu_mode \in {"HIGH", "LOW"}
           /\ last.cpu_mode = "HIGH" <=> last.obs.Disturbance

\* an undisturbed cycle moved the duty cycle from 1.0 to 0.1 and returned LOW
C25_Witness ==
    /\ CycleReturned /\ ~last.obs.Disturbance
    /\ last.u_prev = 1000 /\ last.pwm_out = 100
    /\ last.cpu_mode = "LOW"

\* C27: inside run_cycle choose_action does not change the policy table:
\* learn has created the row of the current bin as its next_bin, so after
\* the cycle the table is the one learn left, whether the choice explored
\* or was greedy.
C27_ChoiceLeavesTable ==
    [][(CycleStep /\ last'.err = "none")
           => /\ q_table' = AfterLearn(last_soc_state, last_action,
                                       last'.reward, last'.current_state)
              /\ last'.current_state \in DOMAIN q_table']_vars

\* a greedy choice in a cycle read a row of the current bin that learn had
\* written in the same cycle
C27_Witness ==
    /\ CycleReturned /\ ~last.explore
    /\ last.state = last.current_state
    /\ q_table[last.current_state][last.action] # 0

\* V/8.4 - ((110 - SoC)/4) * i_est * 0.18
RewardOf(v, soc, i_est) ==
    Div(v, 8400) - Mul(Mul(((110 - soc) * SCALE) \div 4, i_est), 180)

RunStep == Len(results') = Len(results) + 1

\* the number of requests in a user pattern
Requests(user_pattern) ==
    Cardinality({t \in 1..Len(user_pattern) : user_pattern[t]})

\* the number of time steps decided active
Active(decisions) == Cardinality({t \in 1..Len(decisions) : decisions[t]})

\* C28: run_simulation rejects a user pattern whose length is not the
\* configured duration with a ValueError and leaves the algorithm as it
\* was, not reset and not updated; on success requests_served +
\* requests_missed is the number of requests in the pattern, and update
\* has run once for every time step, on the decision should_activate made
\* for that step.
C28_PatternLengthChecked ==
    [][RunStep =>
          LET r == results'[Len(results')]
          IN  IF Len(r.user_pattern) # duration
              THEN r.err = "ValueError" /\ algorithm' = algorithm
              ELSE /\ r.err = "none"
                   /\ r.requests_served + r.requests_missed =
                          Requests(r.user_pattern)
                   /\ Len(r.decisions) = duration
                   /\ r.active_time = 1000 * Active(r.decisions)
                   /\ r.algorithm_name # "Always-On"
                          => r.active_time + r.idle_time = 1000 * duration
                   /\ r.algorithm_name = "NAHEO-Adaptive"
                          => /\ algorithm'.total_predictions =
                                   algorithm.total_predictions + duration
                             /\ algorithm'.was_previously_active =
                                   r.decisions[duration]]_vars

\* a pattern of the wrong length was rejected after a run that had used
\* energy and missed a request, and the energy still stands
C28_Witness ==
    /\ Len(results) = 2
    /\ results[1].err = "none" /\ results[1].requests_missed > 0
    /\ results[1].requests_served > 0
    /\ results[2].err = "ValueError"
    /\ algorithm.energy_consumed = results[1].energy_consumed
    /\ algorithm.energy_consumed > 0

\* C29: AlwaysOnAlgorithm and NAHEOAdaptiveAlgorithm are active at every
\* step where the user requests service, whatever has been learned, so a
\* run_simulation with either of them counts no missed request.
C29_NoMissedRequest ==
    \A i \in 1..Len(results) :
        (/\ results[i].err = "none"
         /\ results[i].algorithm_name \in {"Always-On", "NAHEO-Adaptive"})
            => /\ results[i].requests_missed = 0
               /\ \A t \in 1..duration :
                      results[i].user_pattern[t] => results[i].decisions[t]

\* the adaptive algorithm, having learned from an idle run to stay off,
\* served the one request of its second run
C29_Witness ==
    /\ Len(results) = 2
    /\ results[2].algorithm_name = "NAHEO-Adaptive"
    /\ results[1].err = "none" /\ Requests(results[1].user_pattern) = 0
    /\ results[2].err = "none" /\ results[2].requests_served = 1
    /\ Active(results[2].decisions) = 1

\* C30: reset returns the algorithm to its initial state, so two runs of
\* run_simulation on the same NAHEOAdaptiveAlgorithm object with the same
\* user pattern make the same activation decisions and consume the same
\* energy.
C30_ResetRestoresInitial ==
    \A i \in 1..Len(results) : \A j \in 1..Len(results) :
        (/\ results[i].algorithm_name = "NAHEO-Adaptive"
         /\ results[i].err = "none" /\ results[j].err = "none"
         /\ results[i].user_pattern = results[j].user_pattern)
            => /\ results[i].decisions = results[j].decisions
               /\ results[i].energy_consumed = results[j].energy_consumed

====
